---- MODULE Spec2Model ----
(***************************************************************************)
(* A model of agent_streamlit.py: the three-stage course pipeline of       *)
(* run_course_generation and, in detail, CourseContentGenerator.forward,   *)
(* which fans one generation task per skill of a module out to a           *)
(* ThreadPoolExecutor(max_workers=5), collects the futures with            *)
(* as_completed, and builds one ModuleContentBundle per module.            *)
(*                                                                         *)
(* The main thread is modelled by pc; every future of every module is a    *)
(* record in futures, moved by the pool's worker threads.  The language    *)
(* model behind the dspy predictors is a stub: adapter says, per skill,    *)
(* whether a generation call returns blocks, raises or never returns.      *)
(* completed, collected and early are history variables: nothing the       *)
(* program does reads them, and they are recorded only when trace is set.  *)
(***************************************************************************)
EXTENDS Integers, Sequences, FiniteSets, TLC

\* ThreadPoolExecutor(max_workers=5)
MaxWorkers == 5

\* Bounds of the model.
MaxModules == 2
MaxTasks == 3
MaxBlocks == 2

\* The smallest module that overflows the pool: one more skill than workers.
BigSkills == MaxWorkers + 1

Skills == {"s1", "s2"}

\* The k-th module of a grouping is named ModuleNames[k]
ModuleNames == <<"A", "B", "C", "D">>

SeqsUpTo(S, n) == UNION {[1..k -> S] : k \in 0..n}

Range(s) == {s[k] : k \in 1..Len(s)}

\* class Module(BaseModel): module_name, skills
Module(k, skills) == [module_name |-> ModuleNames[k], skills |-> skills]

\* KnowledgeGapResult.knowledge_skills_list values the analyzer may return:
\* the lists of distinct skills
GapResults ==
  {S \in SeqsUpTo(Skills, Cardinality(Skills)) :
     \A a, b \in 1..Len(S) : S[a] = S[b] => a = b}

\* The grouping that cuts the skill sequence `flat` into Len(cuts) modules,
\* module k ending at position cuts[k]
Grouping(flat, cuts) ==
  [k \in 1..Len(cuts) |->
     Module(k, SubSeq(flat, (IF k = 1 THEN 0 ELSE cuts[k - 1]) + 1, cuts[k]))]

Cuts(n, len) ==
  {c \in [1..n -> 0..len] :
     /\ \A k \in 1..(n - 1) : c[k] <= c[k + 1]
     /\ n > 0 => c[n] = len}

\* ModuleGroupingResult.modules values the grouper may return: the predictor's
\* output is any value of the declared shape, whatever the input list was.
\* Here: up to MaxModules modules holding up to MaxTasks skill entries in all
ModuleLists ==
  UNION {UNION {{Grouping(flat, c) : c \in Cuts(n, Len(flat))} :
                  flat \in SeqsUpTo(Skills, MaxTasks)} : n \in 1..MaxModules}
    \cup {<<>>}

\* The groupings of one module
OneModuleLists == {ml \in ModuleLists : Len(ml) = 1}

\* Module lists with one module of BigSkills skills, all "s1" but at most one
\* "s2" placed first or last, optionally followed by a one-skill module
BigModule(p) == Module(1, [k \in 1..BigSkills |-> IF k = p THEN "s2" ELSE "s1"])

BigModuleLists ==
  {<<BigModule(p)>> : p \in {0, 1, BigSkills}}
    \cup {<<BigModule(1), Module(2, <<"s1">>)>>}

\* What the language-model call does for a skill: it returns n content
\* blocks, raises (GenerationFormatError, a transport error), or never returns
Outcome ==
  [kind : {"ok"}, n : 0..MaxBlocks] \cup [kind : {"error", "hang"}, n : {0}]

\* The stub adapters: "s1" returns one block, "s2" does any of the above
Adapters == {a \in [Skills -> Outcome] : a["s1"] = [kind |-> "ok", n |-> 1]}

\* Two of them: "s2" returns MaxBlocks blocks, or "s2" raises
TwoAdapters ==
  {a \in Adapters :
     a["s2"] \in {[kind |-> "ok", n |-> MaxBlocks], [kind |-> "error", n |-> 0]}}

NoResult == [returned |-> FALSE, modules |-> <<>>]
\* queued: how many tasks had not started when the error was raised (history)
NoError == [raised |-> FALSE, module_name |-> "", skill |-> "", queued |-> 0]

VARIABLES
  pc,             \* where the main thread is
  trace,          \* whether the history variables (the last three) are recorded
  adapter,        \* the stub behaviour of the language model, per skill
  skills_list,    \* run_course_generation: result.analysis.knowledge_skills_list
  modules,        \* run_course_generation: grouping_result.grouping.modules
  ncalls,         \* calls of forward so far
  prev_result,    \* the result of the previous call of forward
  mi,             \* index of the module the for loop is at
  j,              \* index of the next skill task to submit
  futures,        \* futures[m][i]: the future of skill i of module m
  finished,       \* as_completed: the list of futures being yielded
  pending,        \* as_completed: futures not yet yielded
  waiter,         \* as_completed: waiter.finished_futures
  content_blocks, \* forward: content_blocks of the current module
  module_bundles, \* forward: module_bundles
  result,         \* what forward returned
  error,          \* what forward raised
  completed,      \* history: current module's futures in completion order
  collected,      \* history: current module's futures in the order result() returned
  early           \* history: futures already finished when as_completed began

vars == <<pc, trace, adapter, skills_list, modules, ncalls, prev_result, mi, j, futures,
          finished, pending, waiter, content_blocks, module_bundles, result,
          error, completed, collected, early>>

\* ContentGenerator.forward through the stub: the blocks for (module_name, skill)
ContentGenerator(module_name, skill_item) ==
  [b \in 1..adapter[skill_item].n |-> <<module_name, skill_item, b>>]

\* faulty variant: the first skill of a module gets no task
skill_tasks_from_second(module) ==
  [k \in 1..(Len(module.skills) - 1) |->
     <<module.module_name, module.skills[k + 1]>>]

\* skill_tasks = [(module.module_name, skill) for skill in module.skills]
skill_tasks(module) ==
  [k \in 1..Len(module.skills) |-> <<module.module_name, module.skills[k]>>]

NewFuture(task) ==
  [module_name |-> task[1], skill |-> task[2], state |-> "PENDING",
   exc |-> FALSE, content_blocks |-> <<>>, calls |-> 0]

Running(m) == {i \in 1..Len(futures[m]) : futures[m][i].state = "RUNNING"}
Queued(m) == {i \in 1..Len(futures[m]) : futures[m][i].state = "PENDING"}
Done(m) == {i \in 1..Len(futures[m]) : futures[m][i].state = "FINISHED"}

----------------------------------------------------------------------------
(* run_course_generation, steps 1 and 2 *)

\* the analyzer's predictor answers with one of `results`
AnalyzeGap(results) ==
  /\ pc = "gap"
  /\ \E S \in results : skills_list' = S
  /\ pc' = "group"
  /\ UNCHANGED <<trace, adapter, modules, ncalls, prev_result, mi, j, futures, finished,
                 pending, waiter, content_blocks, module_bundles, result, error,
                 completed, collected, early>>

\* ModuleGrouper.forward returns the predictor's grouping as it is
ModuleGrouper(knowledge_skills_list, grouping) == grouping

\* the grouper's predictor answers with one of `groupings`
GroupModules(groupings) ==
  /\ pc = "group"
  /\ \E ms \in groupings : modules' = ModuleGrouper(skills_list, ms)
  /\ pc' = "generate"
  /\ UNCHANGED <<trace, adapter, skills_list, ncalls, prev_result, mi, j, futures,
                 finished, pending, waiter, content_blocks, module_bundles,
                 result, error, completed, collected, early>>

----------------------------------------------------------------------------
(* CourseContentGenerator.forward: the main thread *)

\* forward(modules) is entered: module_bundles = []
Enter ==
  /\ ncalls' = ncalls + 1
  /\ prev_result' = result
  /\ result' = NoResult
  /\ module_bundles' = <<>>
  /\ mi' = 1
  /\ j' = 1
  /\ futures' = [m \in 1..Len(modules) |-> <<>>]
  /\ content_blocks' = <<>>
  /\ finished' = <<>>
  /\ pending' = {}
  /\ waiter' = <<>>
  /\ completed' = <<>>
  /\ collected' = <<>>
  /\ early' = {}
  /\ pc' = "for"
  /\ UNCHANGED <<trace, adapter, skills_list, modules, error>>

\* run_course_generation, step 3: course_generator(modules=modules)
CallForward ==
  /\ pc = "generate"
  /\ Enter

\* a second call of forward on the same module list, after the first returned
CallAgain ==
  /\ pc = "returned"
  /\ ncalls < 2
  /\ Enter

\* for module in modules: ... with ThreadPoolExecutor(max_workers=5) as executor
ForModule ==
  /\ pc = "for"
  /\ mi <= Len(modules)
  /\ j' = 1
  /\ completed' = <<>>
  /\ collected' = <<>>
  /\ early' = {}
  /\ pc' = "submit"
  /\ UNCHANGED <<trace, adapter, skills_list, modules, ncalls, prev_result, mi, futures,
                 finished, pending, waiter, content_blocks, module_bundles,
                 result, error>>

\* executor.submit(self._generate_skill_content, module_name, skill)
Submit ==
  /\ pc = "submit"
  /\ j <= Len(skill_tasks(modules[mi]))
  /\ futures' = [futures EXCEPT
                   ![mi] = Append(@, NewFuture(skill_tasks(modules[mi])[j]))]
  /\ j' = j + 1
  /\ UNCHANGED <<pc, trace, adapter, skills_list, modules, ncalls, prev_result, mi,
                 finished, pending, waiter, content_blocks, module_bundles,
                 result, error, completed, collected, early>>

Perms(S) ==
  {f \in [1..Cardinality(S) -> S] : \A a, b \in 1..Cardinality(S) : f[a] = f[b] => a = b}

\* as_completed's first list: finished = list(set(f for f in fs if f is done)),
\* a list in the iteration order of a set of objects, which is no order of the
\* program's
FinishedList(done) == Perms(done)

\* content_blocks = []; as_completed(futures) takes its snapshot under the
\* futures' locks and installs its waiter
AsCompleted ==
  /\ pc = "submit"
  /\ j > Len(skill_tasks(modules[mi]))
  /\ content_blocks' = <<>>
  /\ \E order \in FinishedList(Done(mi)) : finished' = order
  /\ pending' = (1..Len(futures[mi])) \ Done(mi)
  /\ early' = IF trace THEN Done(mi) ELSE {}
  /\ waiter' = <<>>
  /\ pc' = "yield"
  /\ UNCHANGED <<trace, adapter, skills_list, modules, ncalls, prev_result, mi, j,
                 futures, module_bundles, result, error, completed, collected>>

\* faulty variant: append-like, only the first block of a result is kept
ExtendFirstOnly(blocks, more) ==
  IF more = <<>> THEN blocks ELSE Append(blocks, more[1])

\* faulty variant: the result replaces what was collected so far
ExtendOverwrite(blocks, more) == more

\* faulty variant: the result is put in front of what was collected so far
ExtendFront(blocks, more) == more \o blocks

\* content_blocks.extend(result.content_blocks)
Extend(blocks, more) == blocks \o more

\* the loop body for a future that holds a result
CollectResult ==
  /\ pc = "yield"
  /\ finished # <<>>
  /\ ~futures[mi][Head(finished)].exc
  /\ content_blocks' = Extend(content_blocks, futures[mi][Head(finished)].content_blocks)
  /\ collected' = IF trace THEN Append(collected, Head(finished)) ELSE collected
  /\ pending' = pending \ {Head(finished)}
  /\ finished' = Tail(finished)
  /\ UNCHANGED <<pc, trace, adapter, skills_list, modules, ncalls, prev_result, mi, j,
                 futures, waiter, module_bundles, result, error, completed, early>>

\* faulty variant: a failed future is skipped (the exception is swallowed)
ResultSwallowed ==
  /\ pc = "yield"
  /\ finished # <<>>
  /\ futures[mi][Head(finished)].exc
  /\ collected' = IF trace THEN Append(collected, Head(finished)) ELSE collected
  /\ pending' = pending \ {Head(finished)}
  /\ finished' = Tail(finished)
  /\ UNCHANGED <<pc, trace, adapter, skills_list, modules, ncalls, prev_result, mi,
                 j, futures, waiter, content_blocks, module_bundles, result, error,
                 completed, early>>

\* future.result() raises the task's exception: the loop and the with block
\* are left, and ThreadPoolExecutor.__exit__ runs shutdown(wait=True)
ResultRaises ==
  /\ pc = "yield"
  /\ finished # <<>>
  /\ futures[mi][Head(finished)].exc
  /\ error' = [raised |-> TRUE,
               module_name |-> futures[mi][Head(finished)].module_name,
               skill |-> futures[mi][Head(finished)].skill,
               queued |-> Cardinality(Queued(mi))]
  /\ finished' = <<>>
  /\ waiter' = <<>>
  /\ pc' = "shutdown"
  /\ UNCHANGED <<trace, adapter, skills_list, modules, ncalls, prev_result, mi, j,
                 futures, pending, content_blocks, module_bundles, result,
                 completed, collected, early>>

\* while pending: waiter.event.wait(); finished = waiter.finished_futures
WaitEvent ==
  /\ pc = "yield"
  /\ finished = <<>>
  /\ pending # {}
  /\ waiter # <<>>
  /\ finished' = waiter
  /\ waiter' = <<>>
  /\ UNCHANGED <<pc, trace, adapter, skills_list, modules, ncalls, prev_result, mi, j,
                 futures, pending, content_blocks, module_bundles, result, error,
                 completed, collected, early>>

\* faulty variant: shutdown(wait=False)
ShutdownNoWait(m) == TRUE

\* shutdown(wait=True): every worker thread is joined; a worker leaves only
\* when the queue is drained, so every submitted task has run
ShutdownJoined(m) == Running(m) = {} /\ Queued(m) = {}

\* faulty variant: the with block is left as soon as no finished future is at hand,
\* without waiting for the pending ones and without joining the workers
ExitWithNoBarrier ==
  /\ pc = "yield"
  /\ finished = <<>>
  /\ pc' = "bundle"
  /\ UNCHANGED <<trace, adapter, skills_list, modules, ncalls, prev_result, mi, j,
                 futures, finished, pending, waiter, content_blocks,
                 module_bundles, result, error, completed, collected, early>>

\* as_completed is exhausted and the with block is left
ExitWith ==
  /\ pc = "yield"
  /\ finished = <<>>
  /\ pending = {}
  /\ ShutdownJoined(mi)
  /\ pc' = "bundle"
  /\ UNCHANGED <<trace, adapter, skills_list, modules, ncalls, prev_result, mi, j,
                 futures, finished, pending, waiter, content_blocks,
                 module_bundles, result, error, completed, collected, early>>

\* faulty variant: module_bundles.insert(0, bundle)
PrependBundle(bundles, bundle) == <<bundle>> \o bundles

\* module_bundles.append(bundle)
AppendBundle(bundles, bundle) == Append(bundles, bundle)

\* bundle = ModuleContentBundle(...); module_bundles.append(bundle)
MakeBundle ==
  /\ pc = "bundle"
  /\ module_bundles' =
       AppendBundle(module_bundles,
                    [module_name |-> modules[mi].module_name,
                     content_blocks |-> content_blocks])
  /\ mi' = mi + 1
  /\ pc' = "for"
  /\ UNCHANGED <<trace, adapter, skills_list, modules, ncalls, prev_result, j, futures,
                 finished, pending, waiter, content_blocks, result, error,
                 completed, collected, early>>

\* the exception leaves forward once __exit__ has joined the workers
Raise ==
  /\ pc = "shutdown"
  /\ ShutdownJoined(mi)
  /\ pc' = "raised"
  /\ UNCHANGED <<trace, adapter, skills_list, modules, ncalls, prev_result, mi, j,
                 futures, finished, pending, waiter, content_blocks,
                 module_bundles, result, error, completed, collected, early>>

\* return CourseContentResult(modules=module_bundles)
Return ==
  /\ pc = "for"
  /\ mi > Len(modules)
  /\ result' = [returned |-> TRUE, modules |-> module_bundles]
  /\ pc' = "returned"
  /\ UNCHANGED <<trace, adapter, skills_list, modules, ncalls, prev_result, mi, j,
                 futures, finished, pending, waiter, content_blocks,
                 module_bundles, error, completed, collected, early>>

----------------------------------------------------------------------------
(* The worker threads of a module's ThreadPoolExecutor *)

\* faulty variant: one worker too many
WorkerFreeOffByOne(m) == Cardinality(Running(m)) <= MaxWorkers

\* faulty variant: a worker thread ends after its first work item
WorkerNotReused(m) == Cardinality(Running(m) \cup Done(m)) < MaxWorkers

\* a worker is free to take the next work item of the queue
WorkerFree(m) == Cardinality(Running(m)) < MaxWorkers

\* as_completed's waiter is installed on the futures of the current module
WaiterInstalled(m) == m = mi /\ pc = "yield"

\* a worker takes the oldest queued work item and calls
\* _generate_skill_content, which calls the adapter once
StartTask(m, i) ==
  /\ i \in Queued(m)
  /\ \A k \in Queued(m) : i <= k
  /\ WorkerFree(m)
  /\ futures' = [futures EXCEPT ![m][i].state = "RUNNING", ![m][i].calls = @ + 1]
  /\ UNCHANGED <<pc, trace, adapter, skills_list, modules, ncalls, prev_result, mi, j,
                 finished, pending, waiter, content_blocks, module_bundles,
                 result, error, completed, collected, early>>

Notify(m, i) ==
  /\ completed' = IF trace /\ m = mi THEN Append(completed, i) ELSE completed
  /\ waiter' = IF WaiterInstalled(m) THEN Append(waiter, i) ELSE waiter

\* the adapter call returns and the future gets its result
TaskReturn(m, i) ==
  /\ i \in Running(m)
  /\ adapter[futures[m][i].skill].kind = "ok"
  /\ futures' = [futures EXCEPT
                   ![m][i].state = "FINISHED",
                   ![m][i].content_blocks =
                      ContentGenerator(futures[m][i].module_name, futures[m][i].skill)]
  /\ Notify(m, i)
  /\ UNCHANGED <<pc, trace, adapter, skills_list, modules, ncalls, prev_result, mi, j,
                 finished, pending, content_blocks, module_bundles, result,
                 error, collected, early>>

\* the adapter call raises and the future gets the exception
TaskFail(m, i) ==
  /\ i \in Running(m)
  /\ adapter[futures[m][i].skill].kind = "error"
  /\ futures' = [futures EXCEPT ![m][i].state = "FINISHED", ![m][i].exc = TRUE]
  /\ Notify(m, i)
  /\ UNCHANGED <<pc, trace, adapter, skills_list, modules, ncalls, prev_result, mi, j,
                 finished, pending, content_blocks, module_bundles, result,
                 error, collected, early>>

\* an adapter call that never returns: the task stays RUNNING for ever
Stuck(m, i) == i \in Running(m) /\ adapter[futures[m][i].skill].kind = "hang"

----------------------------------------------------------------------------

InitWith(adapters, tr) ==
  /\ pc = "gap"
  /\ trace = tr
  /\ adapter \in adapters
  /\ skills_list = <<>>
  /\ modules = <<>>
  /\ ncalls = 0
  /\ prev_result = NoResult
  /\ mi = 1
  /\ j = 1
  /\ futures = <<>>
  /\ finished = <<>>
  /\ pending = {}
  /\ waiter = <<>>
  /\ content_blocks = <<>>
  /\ module_bundles = <<>>
  /\ result = NoResult
  /\ error = NoError
  /\ completed = <<>>
  /\ collected = <<>>
  /\ early = {}

MainThread ==
  \/ CallForward
  \/ ForModule
  \/ Submit
  \/ AsCompleted
  \/ CollectResult
  \/ ResultRaises
  \/ WaitEvent
  \/ ExitWith
  \/ MakeBundle
  \/ Raise
  \/ Return

\* The steps of the worker threads, for any future of any module's pool
Start == \E m \in 1..Len(futures) : \E i \in 1..Len(futures[m]) : StartTask(m, i)
Finish == \E m \in 1..Len(futures) : \E i \in 1..Len(futures[m]) : TaskReturn(m, i)
Fail == \E m \in 1..Len(futures) : \E i \in 1..Len(futures[m]) : TaskFail(m, i)

Workers ==
  \/ Start
  \/ Finish
  \/ Fail

\* One run of run_course_generation on any grouping
Init == InitWith(Adapters, FALSE)

Next ==
  \/ AnalyzeGap({<<"s1", "s2">>})
  \/ GroupModules(ModuleLists)
  \/ MainThread
  \/ Workers

Spec == Init /\ [][Next]_vars

\* One run on any grouping of one module, the order of completion recorded
OrderInit == InitWith(Adapters, TRUE)

OrderNext ==
  \/ AnalyzeGap({<<"s1", "s2">>})
  \/ GroupModules(OneModuleLists)
  \/ MainThread
  \/ Workers

OrderSpec == OrderInit /\ [][OrderNext]_vars

\* The first two stages on any gap analysis and any grouping, then forward
PipelineInit == InitWith(TwoAdapters, FALSE)

PipelineNext ==
  \/ AnalyzeGap(GapResults)
  \/ GroupModules(ModuleLists)
  \/ MainThread
  \/ Workers

PipelineSpec == PipelineInit /\ [][PipelineNext]_vars

\* forward called a second time on the same module list once it has returned
TwiceInit == InitWith(TwoAdapters, FALSE)

TwiceNext ==
  \/ Next
  \/ CallAgain

TwiceSpec == TwiceInit /\ [][TwiceNext]_vars

\* Runs whose grouping holds a module with more skills than workers
PoolInit == InitWith(Adapters, FALSE)

PoolNext ==
  \/ AnalyzeGap({<<"s1", "s2">>})
  \/ GroupModules(BigModuleLists)
  \/ MainThread
  \/ Workers

\* The main thread is not held back for ever when it can take a step, and
\* neither are the pool's worker threads
Fairness == WF_vars(MainThread) /\ WF_vars(Workers)

PoolSpec == PoolInit /\ [][PoolNext]_vars

\* Runs of one big module whose first skill returns no block, raises or hangs,
\* under fair scheduling of the threads
LiveInit == InitWith({a \in Adapters : a["s2"].n = 0}, FALSE)

LiveNext ==
  \/ AnalyzeGap({<<"s1", "s2">>})
  \/ GroupModules({<<BigModule(1)>>})
  \/ MainThread
  \/ Workers

LiveSpec == LiveInit /\ [][LiveNext]_vars /\ Fairness

----------------------------------------------------------------------------
(* Properties *)

Count(seq, x) == Cardinality({k \in 1..Len(seq) : seq[k] = x})

SameBag(s, t) ==
  /\ Len(s) = Len(t)
  /\ \A x \in Range(s) \cup Range(t) : Count(s, x) = Count(t, x)

RECURSIVE Flatten(_)
Flatten(ss) == IF ss = <<>> THEN <<>> ELSE Head(ss) \o Flatten(Tail(ss))

\* the blocks returned by the futures fs of module m, in the order `order`
Returned(m, order) ==
  Flatten([k \in 1..Len(order) |-> futures[m][order[k]].content_blocks])

Indices(m) == [k \in 1..Len(futures[m]) |-> k]

Restrict(seq, S) == SelectSeq(seq, LAMBDA x : x \in S)

IsPrefix(s, t) == Len(s) <= Len(t) /\ \A k \in 1..Len(s) : s[k] = t[k]

Finished == pc \in {"returned", "raised"}
InForward == pc \in {"for", "submit", "yield", "bundle", "shutdown"}
SomeStuck == \E m \in 1..Len(futures) : \E i \in 1..Len(futures[m]) : Stuck(m, i)
InFlight == UNION {{<<m, i>> : i \in Running(m)} : m \in 1..Len(futures)}

\* C1: every module with a bundle had exactly one task submitted per skill
\* entry, each task called the adapter once with (module_name, skill), and the
\* bundle's blocks are, as a bag, exactly the blocks those tasks returned
C1_TasksAndBlocks ==
  \A m \in 1..Len(module_bundles) :
    /\ Len(futures[m]) = Len(modules[m].skills)
    /\ \A i \in 1..Len(futures[m]) :
         /\ futures[m][i].calls = 1
         /\ futures[m][i].module_name = modules[m].module_name
         /\ futures[m][i].skill = modules[m].skills[i]
    /\ SameBag(module_bundles[m].content_blocks, Returned(m, Indices(m)))

C1_Witness ==
  /\ pc = "returned"
  /\ \E m \in 1..Len(modules) :
       /\ Len(modules[m].skills) = 3
       /\ modules[m].skills[1] = modules[m].skills[3]
       /\ Len(result.modules[m].content_blocks) = 5
  /\ \E m \in 1..Len(modules) : modules[m].skills = <<>>

\* C2: at most MaxWorkers tasks are inside their adapter call at any moment
C2_PoolBound == Cardinality(InFlight) <= MaxWorkers

C2_Witness ==
  /\ Len(futures) >= 1
  /\ Len(futures[1]) = BigSkills
  /\ Cardinality(Running(1)) = MaxWorkers
  /\ Queued(1) # {}

\* C3: a task of a later module exists only when every task of every earlier
\* module has been submitted and has finished
C3_Barrier ==
  \A m1, m2 \in 1..Len(futures) :
    (m1 < m2 /\ futures[m2] # <<>>)
      => /\ Len(futures[m1]) = Len(modules[m1].skills)
         /\ Done(m1) = 1..Len(futures[m1])

C3_Witness ==
  /\ Len(futures) = 2
  /\ Len(futures[1]) = 2
  /\ Running(2) # {}

\* C4: a returned result holds one bundle per input module, in input order
C4_ModuleOrder ==
  result.returned =>
    /\ Len(result.modules) = Len(modules)
    /\ \A k \in 1..Len(modules) :
         result.modules[k].module_name = modules[k].module_name

C4_Witness ==
  /\ result.returned
  /\ Len(modules) = 2
  /\ Len(modules[1].skills) = 2
  /\ Len(modules[2].skills) = 1

\* C5: once an adapter call of module m has failed, forward never returns a
\* result and builds no bundle for m; when forward has raised, the error is
\* that of a failed task of the module it was at, and nothing was returned
C5_FailurePropagates ==
  /\ \A m \in 1..Len(futures) : \A i \in 1..Len(futures[m]) :
       futures[m][i].exc =>
         /\ ~result.returned
         /\ pc \notin {"bundle", "returned"}
         /\ Len(module_bundles) < m
  /\ pc = "raised" =>
       /\ error.raised
       /\ ~result.returned
       /\ Len(module_bundles) = mi - 1
       /\ \E i \in 1..Len(futures[mi]) :
            /\ futures[mi][i].exc
            /\ futures[mi][i].module_name = error.module_name
            /\ futures[mi][i].skill = error.skill

C5_Witness ==
  /\ pc = "raised"
  /\ mi = 2
  /\ Len(module_bundles) = 1
  /\ module_bundles[1].content_blocks # <<>>

\* C6: two returned calls on the same modules give the same module order and,
\* per module, the same bag of content blocks
C6_Idempotent ==
  (ncalls = 2 /\ result.returned /\ prev_result.returned) =>
    /\ Len(result.modules) = Len(prev_result.modules)
    /\ \A k \in 1..Len(result.modules) :
         /\ result.modules[k].module_name = prev_result.modules[k].module_name
         /\ SameBag(result.modules[k].content_blocks,
                    prev_result.modules[k].content_blocks)

C6_Witness ==
  /\ ncalls = 2
  /\ result.returned
  /\ prev_result.returned
  /\ Len(result.modules) = 2
  /\ result.modules[1].content_blocks # prev_result.modules[1].content_blocks

AllModuleSkills == UNION {Range(modules[m].skills) : m \in 1..Len(modules)}
AllTaskSkills ==
  UNION {{futures[m][i].skill : i \in 1..Len(futures[m])} : m \in 1..Len(futures)}

\* C7, as claimed: the grouped modules' skills, unioned, are the skills of S
C7_GroupingCoversSkills ==
  pc \notin {"gap", "group"} => AllModuleSkills = Range(skills_list)

\* C7, amended: forward runs tasks only for skills of the grouped modules,
\* and a returned run has run one task per skill entry of every module: it
\* covered S exactly when the adapter's grouping, which is not checked, does
C7_TasksCoverGrouping ==
  /\ AllTaskSkills \subseteq AllModuleSkills
  /\ result.returned =>
       /\ AllTaskSkills = AllModuleSkills
       /\ \A m \in 1..Len(modules) :
            [i \in 1..Len(futures[m]) |-> futures[m][i].skill] = modules[m].skills

C7_Witness ==
  /\ result.returned
  /\ skills_list = <<"s1", "s2">>
  /\ AllTaskSkills = {"s1"}

\* C8, as claimed: a bundle's blocks are the tasks' blocks concatenated in the
\* order the tasks completed
C8_CompletionOrder ==
  pc = "bundle" => content_blocks = Returned(mi, completed)

\* C8, amended: a bundle's blocks are the tasks' blocks, each task's blocks
\* contiguous and in returned order, concatenated in the order as_completed
\* yields the futures: first those already finished when collection began, in
\* no particular order, then the others in the order they completed
C8_YieldOrder ==
  pc \in {"yield", "bundle"} =>
    /\ content_blocks = Returned(mi, collected)
    /\ \A a, b \in 1..Len(collected) : collected[a] = collected[b] => a = b
    /\ Restrict(collected, early) = SubSeq(collected, 1, Len(Restrict(collected, early)))
    /\ IsPrefix(Restrict(collected, Range(collected) \ early),
                Restrict(completed, Range(completed) \ early))
    /\ (early \ Range(collected) # {}) => Range(collected) \subseteq early
    /\ pc = "bundle" => Range(collected) = 1..Len(modules[mi].skills)

C8_Witness ==
  /\ pc = "bundle"
  /\ Len(collected) = 3
  /\ Cardinality(early) = 2
  /\ collected # completed
  /\ content_blocks # Returned(mi, completed)

\* C9: a call of forward that has started ends, returning or raising, unless
\* an adapter call never returns; and while an adapter call is stuck forward
\* has not ended
C9_Termination ==
  /\ InForward ~> (Finished \/ SomeStuck)
  /\ [](SomeStuck => ~Finished)

C9_Witness ==
  /\ pc = "returned"
  /\ Len(futures[1]) = BigSkills
  /\ Len(result.modules[1].content_blocks) = MaxWorkers

\* C10: when forward has returned or raised, every task submitted has run its
\* adapter call to the end: none is queued, running or cancelled
C10_NoTaskOutlives ==
  Finished =>
    \A m \in 1..Len(futures) :
      /\ Len(futures[m]) = IF m <= mi THEN Len(modules[m].skills) ELSE 0
      /\ \A i \in 1..Len(futures[m]) :
           futures[m][i].state = "FINISHED" /\ futures[m][i].calls = 1

C10_Witness ==
  /\ pc = "raised"
  /\ Len(futures[1]) = BigSkills
  /\ error.queued > 0

====
